---------------------------- MODULE Spec2Model ----------------------------
(***************************************************************************)
(* Model of pulserver/_core/_ceq.py: the binary encoders of the Pulseq     *)
(* events, PulseqBlock, Segment, the compiled sequence Ceq and the scanner *)
(* parameter record SequenceParams.                                        *)
(*                                                                         *)
(* Numbers.  A byte string is a sequence of naturals below 256.  A Python  *)
(* int is an Int.  A float whose value is an integer is held as that Int   *)
(* (durations are in microseconds) and is packed by F32Word, its IEEE-754  *)
(* single precision bit pattern (four bytes, most significant first).  A   *)
(* value read from the wire is held as [c |-> format code, v |-> value]:   *)
(* the signed value of a short "h", the bit pattern of a float "f".        *)
(* Optional[T] is a set: {} is None and {x} is x.                          *)
(***************************************************************************)
EXTENDS Integers, Sequences, FiniteSets, TLC

VARIABLES
    pc,              \* position of the caller: which operation ran last
    data,            \* SequenceParams.from_bytes: the buffer handed in
    wire,            \* the field values the C side wrote into the buffer
    params,          \* the SequenceParams object ({} when there is none)
    dict,            \* the result of SequenceParams.asdict()
    args,            \* PulseqBlock.__init__: the toolkit's descriptors
    endian,          \* the byte-order selector given to to_bytes
    blk,             \* the PulseqBlock object
    out,             \* the bytes to_bytes returned ({} before the call)
    removed,         \* the sub-event left out when the block was rebuilt
    parent_blocks,   \* Ceq.__init__: parent_blocks
    loop,            \* Ceq.__init__: loop, the loop table as handed in
    sections_edges,  \* Ceq.__init__: sections_edges
    ceq              \* the Ceq object ({} when there is none)

vars == <<pc, data, wire, params, dict, args, endian, blk, out, removed,
          parent_blocks, loop, sections_edges, ceq>>

paramsVars == <<data, wire, params, dict>>
blockVars == <<args, endian, blk, out, removed>>
ceqVars == <<parent_blocks, loop, sections_edges, ceq>>

None == {}

Some(x) == {x}

TheValue(opt) == CHOOSE x \in opt : TRUE

(***************************************************************************)
(* struct.pack / struct.unpack of one item.                                *)
(***************************************************************************)
RECURSIVE Pow2(_)
Pow2(n) == IF n = 0 THEN 1 ELSE 2 * Pow2(n - 1)

RECURSIVE Log2Floor(_)
Log2Floor(x) == IF x < 2 THEN 0 ELSE 1 + Log2Floor(x \div 2)

Abs(x) == IF x < 0 THEN -x ELSE x

Reverse(s) == [k \in 1..Len(s) |-> s[Len(s) + 1 - k]]

\* The bytes of a value in the order the selector asks for; msb holds them
\* most significant byte first (">" is big-endian, "<" little-endian).
InOrder(msb, order) == IF order = "<" THEN Reverse(msb) ELSE msb

\* The nbytes bytes of the natural m < 2^31, most significant first.
NatBytes(m, nbytes) ==
    [k \in 1..nbytes |-> (m \div Pow2(8 * (nbytes - k))) % 256]

\* The two's complement of v in nbytes bytes, most significant first.
IntBytes(v, nbytes) ==
    IF v >= 0 THEN NatBytes(v, nbytes)
    ELSE [k \in 1..nbytes |-> 255 - NatBytes(-v - 1, nbytes)[k]]

\* The IEEE-754 binary32 bit pattern of the integer x, |x| < 2^24, as its
\* four bytes, most significant first: sign, 8-bit exponent, 23-bit mantissa.
F32Word(x) ==
    IF x = 0 THEN <<0, 0, 0, 0>>
    ELSE LET m == Abs(x)
             e == Log2Floor(m)
             sign == IF x < 0 THEN 1 ELSE 0
             expo == 127 + e
             mant == (m - Pow2(e)) * Pow2(23 - e)
         IN  << sign * 128 + expo \div 2,
                (expo % 2) * 128 + mant \div Pow2(16),
                (mant \div 256) % 256,
                mant % 256 >>

\* struct.pack(endian + "h", v) and struct.pack(endian + "i", v).
PackInt(v, nbytes, order) == InOrder(IntBytes(v, nbytes), order)

\* struct.pack(endian + "f", v) of an integer-valued float.
PackFloat(v, order) == InOrder(F32Word(v), order)

\* struct.unpack of one "h": the signed 16-bit value.
UnpackShort(bytes, order) ==
    LET msb == InOrder(bytes, order)
        w == msb[1] * 256 + msb[2]
    IN  IF w >= Pow2(15) THEN w - Pow2(16) ELSE w

\* struct.unpack of one "f": the float, held as its bit pattern.
UnpackFloat(bytes, order) == InOrder(bytes, order)

RECURSIVE Concat(_)
Concat(seqs) == IF seqs = <<>> THEN <<>> ELSE Head(seqs) \o Concat(Tail(seqs))

RECURSIVE SumSeq(_)
SumSeq(s) == IF s = <<>> THEN 0 ELSE Head(s) + SumSeq(Tail(s))

RECURSIVE MaxOfSeq(_)
MaxOfSeq(s) ==
    IF Len(s) = 1 THEN s[1]
    ELSE LET m == MaxOfSeq(Tail(s)) IN IF s[1] >= m THEN s[1] ELSE m

(***************************************************************************)
(* The shape and event encoders.  An object carries the name of its class  *)
(* in the field cls.                                                       *)
(***************************************************************************)
CHANNEL_ENUM == [osc0 |-> 0, osc1 |-> 1, ext1 |-> 2]

\* The bit pattern of float32(pi), what np.angle gives for a negative real.
PiF32 == <<64, 73, 15, 219>>

\* np.abs and np.angle of a real-valued sample, the angle as a float32.
NpAbs(x) == Abs(x)

NpAngle(x) == IF x < 0 THEN PiF32 ELSE F32Word(0)

\* PulseqShapeArbitrary(n_samples, raster, magnitude, phase) with
\* __post_init__: the samples become float32 arrays, phase stays None.
PulseqShapeArbitrary(n_samples, raster, magnitude, phase) ==
    [cls |-> "PulseqShapeArbitrary", n_samples |-> n_samples,
     raster |-> raster, magnitude |-> magnitude, phase |-> phase]

PulseqShapeArbitrary_to_bytes(self, order) ==
    PackInt(self.n_samples, 4, order)
        \o PackFloat(self.raster, order)
        \o Concat([k \in 1..Len(self.magnitude) |->
                      PackFloat(self.magnitude[k], order)])
        \o (IF self.phase # None
            THEN Concat([k \in 1..Len(TheValue(self.phase)) |->
                            InOrder(TheValue(self.phase)[k], order)])
            ELSE <<>>)

PulseqShapeTrap(amplitude, rise_time, flat_time, fall_time) ==
    [cls |-> "PulseqShapeTrap", amplitude |-> amplitude,
     rise_time |-> rise_time, flat_time |-> flat_time,
     fall_time |-> fall_time]

PulseqShapeTrap_to_bytes(self, order) ==
    PackFloat(self.amplitude, order) \o PackFloat(self.rise_time, order)
        \o PackFloat(self.flat_time, order)
        \o PackFloat(self.fall_time, order)

Shape_to_bytes(shape, order) ==
    IF shape.cls = "PulseqShapeTrap"
    THEN PulseqShapeTrap_to_bytes(shape, order)
    ELSE PulseqShapeArbitrary_to_bytes(shape, order)

PulseqRF_to_bytes(self, order) ==
    PackInt(self.type, 2, order)
        \o PulseqShapeArbitrary_to_bytes(self.wav, order)
        \o PackFloat(self.duration, order)
        \o PackFloat(self.delay, order)

PulseqRF_from_struct(d) ==
    LET n_samples == Len(d.signal)
        raster == d.t[2] - d.t[1]
        rho == [k \in 1..n_samples |-> NpAbs(d.signal[k])]
        theta == [k \in 1..n_samples |-> NpAngle(d.signal[k])]
    IN  [cls |-> "PulseqRF", type |-> 1,
         wav |-> PulseqShapeArbitrary(n_samples, raster, rho, Some(theta)),
         duration |-> d.shape_dur, delay |-> d.delay]

PulseqGrad_to_bytes(self, order) ==
    PackInt(self.type, 2, order) \o PackFloat(self.delay, order)
        \o Shape_to_bytes(self.shape, order)

PulseqGrad_from_struct(d) ==
    IF d.type = "trap"
    THEN [cls |-> "PulseqGrad", type |-> 1, delay |-> d.delay,
          shape |-> PulseqShapeTrap(d.amplitude, d.rise_time, d.flat_time,
                                    d.fall_time)]
    ELSE [cls |-> "PulseqGrad", type |-> 2, delay |-> d.delay,
          shape |-> PulseqShapeArbitrary(Len(d.waveform),
                                         d.tt[2] - d.tt[1], d.waveform,
                                         None)]

PulseqADC_to_bytes(self, order) ==
    PackInt(self.type, 2, order) \o PackInt(self.num_samples, 4, order)
        \o PackFloat(self.dwell, order) \o PackFloat(self.delay, order)

PulseqADC_from_struct(d) ==
    [cls |-> "PulseqADC", type |-> 1, num_samples |-> d.num_samples,
     dwell |-> d.dwell, delay |-> d.delay]

PulseqTrig_to_bytes(self, order) ==
    PackInt(self.type, 2, order) \o PackInt(self.channel, 4, order)
        \o PackFloat(self.delay, order) \o PackFloat(self.duration, order)

PulseqTrig_from_struct(d) ==
    [cls |-> "PulseqTrig", type |-> 1, channel |-> CHANNEL_ENUM[d.channel],
     delay |-> d.delay, duration |-> d.duration]

\* event.to_bytes(endian), by the class of the event.
Event_to_bytes(ev, order) ==
    CASE ev.cls = "PulseqRF" -> PulseqRF_to_bytes(ev, order)
      [] ev.cls = "PulseqGrad" -> PulseqGrad_to_bytes(ev, order)
      [] ev.cls = "PulseqADC" -> PulseqADC_to_bytes(ev, order)
      [] ev.cls = "PulseqTrig" -> PulseqTrig_to_bytes(ev, order)

(***************************************************************************)
(* PulseqBlock                                                             *)
(***************************************************************************)
Slots == <<"rf", "gx", "gy", "gz", "adc", "trig">>

\* How long one toolkit event lasts: its delay plus its own length.
EventExtent(slot, d) ==
    CASE slot = "rf" -> d.delay + d.shape_dur
      [] slot \in {"gx", "gy", "gz"} ->
            IF d.type = "trap"
            THEN d.delay + d.rise_time + d.flat_time + d.fall_time
            ELSE d.delay + d.tt[Len(d.tt)]
      [] slot = "adc" -> d.delay + d.num_samples * d.dwell
      [] slot = "trig" -> d.delay + d.duration
      [] OTHER -> d.delay

\* pp.calc_duration(*args): the longest of the events given, 0 for none.
pp_calc_duration(a) ==
    LET given == {slot \in DOMAIN a : a[slot] # None}
        extents == {EventExtent(slot, TheValue(a[slot])) : slot \in given}
    IN  IF given = {} THEN 0
        ELSE CHOOSE m \in extents : \A e \in extents : e <= m

\* PulseqBlock.__init__(ID, rf, gx, gy, gz, adc, trig, delay); a is the
\* record of the seven optional descriptors.
PulseqBlockInit(ID, a) ==
    [ID |-> ID,
     duration |-> pp_calc_duration(a),
     rf |-> IF a.rf # None THEN Some(PulseqRF_from_struct(TheValue(a.rf)))
            ELSE None,
     gx |-> IF a.gx # None THEN Some(PulseqGrad_from_struct(TheValue(a.gx)))
            ELSE None,
     gy |-> IF a.gy # None THEN Some(PulseqGrad_from_struct(TheValue(a.gy)))
            ELSE None,
     gz |-> IF a.gz # None THEN Some(PulseqGrad_from_struct(TheValue(a.gz)))
            ELSE None,
     adc |-> IF a.adc # None
             THEN Some(PulseqADC_from_struct(TheValue(a.adc))) ELSE None,
     trig |-> IF a.trig # None
              THEN Some(PulseqTrig_from_struct(TheValue(a.trig))) ELSE None]

\* Variant: the ID packed as a 16-bit integer.
ShortIDHeader(self, order) ==
    PackInt(self.ID, 2, order) \o PackFloat(self.duration, order)

\* struct.pack(endian + "i", self.ID) + struct.pack(endian + "f", duration)
BlockHeader(self, order) ==
    PackInt(self.ID, 4, order) \o PackFloat(self.duration, order)

\* Variant: nothing written for an empty slot.
EventOrNothing(ev, order) ==
    IF ev # None THEN Event_to_bytes(TheValue(ev), order) ELSE <<>>

\* The event's bytes when the slot is filled, else struct.pack("h", 0).
EventOrZero(ev, order) ==
    IF ev # None THEN Event_to_bytes(TheValue(ev), order)
    ELSE PackInt(0, 2, order)

PulseqBlock_to_bytes(self, order) ==
    BlockHeader(self, order)
        \o EventOrZero(self.rf, order)
        \o Concat([k \in 1..3 |->
                      EventOrZero(<<self.gx, self.gy, self.gz>>[k], order)])
        \o EventOrZero(self.adc, order)
        \o EventOrZero(self.trig, order)

(***************************************************************************)
(* SequenceParams                                                          *)
(***************************************************************************)
\* The dataclass fields in declaration order.
FieldNames ==
    << "FOVx", "FOVy", "Nx", "Ny", "Nslices", "Nechoes", "Nphases",
       "slice_thickness", "slice_spacing", "Rplane", "Rplane2", "Rslice",
       "PFplane", "PFslice", "ETL", "TE", "TE0", "TR", "Tprep", "Trecovery",
       "flip", "flip2", "refoc_flip", "freq_dir", "freq_verse",
       "phase_verse", "bipolar_echoes", "dwell", "raster", "gmax", "smax",
       "b1_max", "b0_field" >>

\* The annotation of each field: Optional[float] or Optional[int].
FieldTypes ==
    << "float", "float", "int", "int", "int", "int", "int",
       "float", "float", "float", "float", "float",
       "float", "float", "int", "float", "float", "float", "float", "float",
       "float", "float", "float", "int", "int",
       "int", "int", "float", "float", "float", "float",
       "float", "float" >>

NFields == Len(FieldNames)

\* format_string = "2f 5h 2f 5f h 5f 3f 3h h 6f"
format_string ==
    << <<2, "f">>, <<5, "h">>, <<2, "f">>, <<5, "f">>, <<1, "h">>,
       <<5, "f">>, <<3, "f">>, <<3, "h">>, <<1, "h">>, <<6, "f">> >>

\* The format with its repeat counts expanded: one code per item.
RECURSIVE ExpandFormat(_)
ExpandFormat(fmt) ==
    IF fmt = <<>> THEN <<>>
    ELSE [k \in 1..Head(fmt)[1] |-> Head(fmt)[2]] \o ExpandFormat(Tail(fmt))

\* struct's native sizes: a float is 4 bytes, a short 2.
ItemSize(c) == IF c = "f" THEN 4 ELSE 2

AlignUp(off, a) == ((off + a - 1) \div a) * a

\* Variant: standard mode ("=" prefix), items packed without alignment.
StdItemOffset(codes, i) ==
    SumSeq([k \in 1..(i - 1) |-> ItemSize(codes[k])])

\* Native mode (no prefix character): each item is aligned to its size.
RECURSIVE ItemOffset(_, _)
ItemOffset(codes, i) ==
    IF i = 1 THEN 0
    ELSE AlignUp(ItemOffset(codes, i - 1) + ItemSize(codes[i - 1]),
                 ItemSize(codes[i]))

\* struct.calcsize(format) in native mode.
calcsize(codes) ==
    IF codes = <<>> THEN 0
    ELSE ItemOffset(codes, Len(codes)) + ItemSize(codes[Len(codes)])

\* The byte order struct uses without a prefix character: the machine's,
\* little-endian on the x86 and ARM hosts the package runs on.
NativeOrder == "<"

\* struct.unpack(format_string, buffer), given that the length matches.
unpack(codes, buffer) ==
    [i \in 1..Len(codes) |->
        LET off == ItemOffset(codes, i)
            bytes == SubSeq(buffer, off + 1, off + ItemSize(codes[i]))
        IN  [c |-> codes[i],
             v |-> IF codes[i] = "h" THEN UnpackShort(bytes, NativeOrder)
                   ELSE UnpackFloat(bytes, NativeOrder)]]

\* The bit pattern of the float -1.0.
MinusOneF32 == <<191, 128, 0, 0>>

\* x == -1 or x == -1.0
IsMinusOne(x) ==
    \/ x.c = "h" /\ x.v = -1
    \/ x.c = "f" /\ x.v = MinusOneF32

\* unpacked = [None if x == -1 or x == -1.0 else x for x in unpacked]
ReplaceSentinel(x) == IF IsMinusOne(x) THEN None ELSE Some(x)

\* Variant: the values handed to the fields one position off.
ShiftedFields(unpacked) ==
    [i \in 1..Len(unpacked) |-> FieldNames[(i % Len(unpacked)) + 1]]

\* cls(*unpacked): the i-th value goes to the i-th declared field.
PositionalFields(unpacked) == [i \in 1..Len(unpacked) |-> FieldNames[i]]

SequenceParamsInit(unpacked) ==
    LET names == PositionalFields(unpacked)
    IN  [name \in {names[i] : i \in 1..Len(unpacked)} |->
            LET i == CHOOSE j \in 1..Len(unpacked) : names[j] = name
            IN  unpacked[i]]

\* struct.unpack raises struct.error unless the buffer has calcsize bytes.
BufferAccepted(buffer) == Len(buffer) = calcsize(ExpandFormat(format_string))

from_bytes(buffer) ==
    LET unpacked == unpack(ExpandFormat(format_string), buffer)
    IN  SequenceParamsInit([i \in 1..Len(unpacked) |->
                               ReplaceSentinel(unpacked[i])])

\* {k: v for k, v in _asdict(self).items() if v is not None}
asdict(self) ==
    [k \in {n \in DOMAIN self : self[n] # None} |-> TheValue(self[k])]

(***************************************************************************)
(* The buffer the C side sends: the C SequenceParams struct, whose float   *)
(* members are 4 bytes aligned to 4 and whose short members are 2 bytes    *)
(* aligned to 2, written in the machine's byte order.                      *)
(***************************************************************************)
CType(i) == IF FieldTypes[i] = "float" THEN "f" ELSE "h"

\* Where member i of the C struct starts.
RECURSIVE CMemberOffset(_)
CMemberOffset(i) ==
    IF i = 1 THEN 0
    ELSE AlignUp(CMemberOffset(i - 1) + ItemSize(CType(i - 1)),
                 ItemSize(CType(i)))

CMemberOffsets == [i \in 1..NFields |-> CMemberOffset(i)]

\* The struct's bytes; pad is what the compiler's padding bytes hold.
CStructImage(values, pad) ==
    Concat([i \in 1..Len(values) |->
        LET gap == IF i = 1 THEN 0
                   ELSE CMemberOffsets[i] - CMemberOffsets[i - 1]
                        - ItemSize(CType(i - 1))
            msb == IF CType(i) = "h" THEN IntBytes(values[i].v, 2)
                   ELSE values[i].v
        IN  [k \in 1..gap |-> pad] \o InOrder(msb, NativeOrder)])

\* The buffer cut or zero-extended to n bytes.
Resize(buffer, n) ==
    IF n <= Len(buffer) THEN SubSeq(buffer, 1, n)
    ELSE buffer \o [k \in 1..(n - Len(buffer)) |-> 0]

\* The values a field is given: unset, 0, 1, and one more value.
ValueKinds == {"minus1", "zero", "one", "other"}

WireValue(i, kind) ==
    IF CType(i) = "h"
    THEN [c |-> "h", v |-> CASE kind = "minus1" -> -1
                             [] kind = "zero" -> 0
                             [] kind = "one" -> 1
                             [] OTHER -> 300]
    ELSE [c |-> "f", v |-> CASE kind = "minus1" -> F32Word(-1)
                             [] kind = "zero" -> F32Word(0)
                             [] kind = "one" -> F32Word(1)
                             [] OTHER -> <<64, 32, 0, 0>>]   \* 2.5

MaxBufferLen == 118

\* The lengths tried: the empty buffer and the lengths around the layout's.
BufferLengths == {0} \cup 108..MaxBufferLen

InitParams ==
    /\ pc = "start"
    /\ \E i \in 1..NFields, kind \in ValueKinds, rest \in ValueKinds,
          pad \in {0, 255}, n \in BufferLengths :
          /\ wire = [j \in 1..NFields |->
                        WireValue(j, IF j = i THEN kind ELSE rest)]
          /\ data = Resize(CStructImage(wire, pad), n)
    /\ params = None
    /\ dict = None
    /\ args = None /\ endian = None /\ blk = None /\ out = None
    /\ removed = None
    /\ parent_blocks = None /\ loop = None /\ sections_edges = None
    /\ ceq = None

FromBytes ==
    /\ pc = "start"
    /\ BufferAccepted(data)
    /\ params' = Some(from_bytes(data))
    /\ pc' = "decoded"
    /\ UNCHANGED <<data, wire, dict, blockVars, ceqVars>>

FromBytesFails ==
    /\ pc = "start"
    /\ ~BufferAccepted(data)
    /\ pc' = "struct.error"
    /\ UNCHANGED <<paramsVars, blockVars, ceqVars>>

AsDict ==
    /\ pc = "decoded"
    /\ dict' = Some(asdict(TheValue(params)))
    /\ pc' = "queried"
    /\ UNCHANGED <<data, wire, params, blockVars, ceqVars>>

NextParams == FromBytes \/ FromBytesFails \/ AsDict

SpecParams == InitParams /\ [][NextParams]_vars

(***************************************************************************)
(* Blocks: a block is built from the toolkit's descriptors and rendered;   *)
(* then it is built again from the same descriptors less one, and          *)
(* rendered again.                                                         *)
(***************************************************************************)
MaxSamples == 3

Optional(S) == {None} \cup {Some(x) : x \in S}

\* A real-valued RF signal of n samples on a raster of 2 us.
RFDescs ==
    {[signal |-> [k \in 1..n |-> k - 2], t |-> [k \in 1..n |-> 2 * k],
      shape_dur |-> 2 * n, delay |-> 1] : n \in 2..MaxSamples}

GradDescs ==
    {[type |-> "trap", amplitude |-> 5, rise_time |-> 2, flat_time |-> 6,
      fall_time |-> 2, delay |-> 1]}
    \cup {[type |-> "grad", waveform |-> [k \in 1..n |-> 3 - k],
           tt |-> [k \in 1..n |-> 4 * k], delay |-> 0] : n \in 2..MaxSamples}

ADCDescs == {[num_samples |-> 4, dwell |-> 2, delay |-> 1]}

TrigDescs == {[channel |-> "ext1", delay |-> 0, duration |-> 3]}

DelayDescs == {[delay |-> 50]}

BlockIDs == {258}

InitBlock ==
    /\ pc = "built"
    /\ args \in [rf : Optional(RFDescs), gx : Optional(GradDescs),
                 gy : Optional(GradDescs), gz : Optional(GradDescs),
                 adc : Optional(ADCDescs), trig : Optional(TrigDescs),
                 delay : Optional(DelayDescs)]
    /\ endian \in {">", "<"}
    /\ \E ID \in BlockIDs : blk = PulseqBlockInit(ID, args)
    /\ out = None
    /\ removed = None
    /\ data = None /\ wire = None /\ params = None /\ dict = None
    /\ parent_blocks = None /\ loop = None /\ sections_edges = None
    /\ ceq = None

\* blk.to_bytes(endian)
ToBytes ==
    /\ pc = "built"
    /\ out' = Some(PulseqBlock_to_bytes(blk, endian))
    /\ pc' = "rendered"
    /\ UNCHANGED <<args, endian, blk, removed, paramsVars, ceqVars>>

\* The block built again without the sub-event in one filled slot.
Rebuild(slot) ==
    /\ pc = "rendered"
    /\ removed = None
    /\ blk[slot] # None
    /\ removed' = Some([slot |-> slot, sub |-> TheValue(blk[slot]),
                        event |-> Event_to_bytes(TheValue(blk[slot]), endian),
                        before |-> TheValue(out)])
    /\ args' = [args EXCEPT ![slot] = None]
    /\ blk' = PulseqBlockInit(blk.ID, args')
    /\ out' = None
    /\ pc' = "built"
    /\ UNCHANGED <<endian, paramsVars, ceqVars>>

RebuildWithout == \E k \in 1..Len(Slots) : Rebuild(Slots[k])

NextBlock == ToBytes \/ RebuildWithout

SpecBlock == InitBlock /\ [][NextBlock]_vars

(***************************************************************************)
(* Claims about PulseqBlock.to_bytes, under SpecBlock.                     *)
(***************************************************************************)
NoSubEvents == \A k \in 1..Len(Slots) : blk[Slots[k]] = None

\* C7 as stated: a block with no RF, gradient, ADC or trigger sub-event
\* renders, in either byte order, to 2 + 4 + 6 x 2 = 18 bytes.
C7_EmptyBlockIs18Bytes ==
    (pc = "rendered" /\ NoSubEvents) => Len(TheValue(out)) = 18

\* C7 amended: a block with no RF, gradient, ADC or trigger sub-event
\* renders, in either byte order, to 4 (id, a 32-bit integer) + 4
\* (duration) + 6 x 2 (six zero type tags) = 20 bytes.
C7_EmptyBlockIs20Bytes ==
    (pc = "rendered" /\ NoSubEvents) =>
        /\ Len(TheValue(out)) = 20
        /\ SubSeq(TheValue(out), 9, 20) = [k \in 1..12 |-> 0]

C7_Witness ==
    /\ pc = "rendered"
    /\ NoSubEvents
    /\ removed = None
    /\ endian = "<"
    /\ TheValue(out)[1] = blk.ID % 256

\* The length the claim gives a sub-event: its fixed fields plus, for an
\* arbitrary shape of n samples, 8 + 4n bytes without phase and 8 + 8n
\* with phase (a trapezoid is four floats).
StatedEventLength(ev) ==
    LET ShapeLength(shape) ==
            IF shape.cls = "PulseqShapeTrap" THEN 16
            ELSE IF shape.phase = None THEN 8 + 4 * shape.n_samples
            ELSE 8 + 8 * shape.n_samples
    IN  CASE ev.cls = "PulseqRF" -> 2 + ShapeLength(ev.wav) + 4 + 4
          [] ev.cls = "PulseqGrad" -> 2 + 4 + ShapeLength(ev.shape)
          [] ev.cls = "PulseqADC" -> 2 + 4 + 4 + 4
          [] ev.cls = "PulseqTrig" -> 2 + 4 + 4 + 4

AfterRemoval == pc = "rendered" /\ removed # None

\* C8 as stated: removing one sub-event shortens the rendered block by
\* exactly the encoded length of that sub-event.
C8_ShorterByEventLength ==
    AfterRemoval =>
        Len(TheValue(removed).before) - Len(TheValue(out))
            = Len(TheValue(removed).event)

\* C8 amended: removing one sub-event shortens the rendered block by the
\* encoded length of that sub-event less the 2 bytes of the zero type tag
\* that takes its place; the sub-event's encoded length is its fixed
\* fields plus its shape (8 + 4n bytes for an arbitrary shape without
\* phase, 8 + 8n with phase).
C8_ShorterByEventLengthLessTag ==
    AfterRemoval =>
        /\ Len(TheValue(removed).before) - Len(TheValue(out))
              = Len(TheValue(removed).event) - 2
        /\ Len(TheValue(removed).event)
              = StatedEventLength(TheValue(removed).sub)

C8_Witness ==
    /\ AfterRemoval
    /\ TheValue(removed).slot = "rf"
    /\ Len(TheValue(removed).event) = 42
    /\ blk.gx # None /\ blk.adc # None

(***************************************************************************)
(* _autoseg.  A stream is a sequence of masked parent-block ids; a segment *)
(* definition is a non-empty sequence of ids.                              *)
(***************************************************************************)
\* The stream holds seg from (1-based) position i on.
OccursAt(stream, seg, i) ==
    /\ i >= 1
    /\ i + Len(seg) - 1 <= Len(stream)
    /\ SubSeq(stream, i, i + Len(seg) - 1) = seg

\* The prefixes of the stream from i on that come again further on without
\* overlapping, by length.
RepeatingLengths(stream, i) ==
    {L \in 1..(Len(stream) - i + 1) :
        \E j \in (i + L)..Len(stream) :
            OccursAt(stream, SubSeq(stream, i, i + L - 1), j)}

SetMax(S) == CHOOSE m \in S : \A x \in S : x <= m

SetMin(S) == CHOOSE m \in S : \A x \in S : m <= x

\* Left to right: where a definition already found matches, the longest
\* (the earliest found among equals) is taken; elsewhere the longest prefix
\* that repeats, or else the rest of the stream, is a new definition.
RECURSIVE ScanDefinitions(_, _, _)
ScanDefinitions(stream, i, defs) ==
    IF i > Len(stream) THEN defs
    ELSE LET known == {k \in 1..Len(defs) : OccursAt(stream, defs[k], i)}
             longest == SetMax({Len(defs[k]) : k \in known})
             reps == RepeatingLengths(stream, i)
             fresh == IF reps = {} THEN Len(stream) - i + 1 ELSE SetMax(reps)
         IN  IF known # {}
             THEN ScanDefinitions(stream, i + longest, defs)
             ELSE ScanDefinitions(stream, i + fresh,
                      Append(defs, SubSeq(stream, i, i + fresh - 1)))

find_segment_definitions(stream) == ScanDefinitions(stream, 1, <<>>)

Rotated(id) == id # 0

\* The maximal runs of ids of one rotation class, in order.
RECURSIVE RotationRuns(_)
RotationRuns(seg) ==
    IF seg = <<>> THEN <<>>
    ELSE LET breaks == {k \in 2..Len(seg) :
                           Rotated(seg[k]) # Rotated(seg[1])}
             n == IF breaks = {} THEN Len(seg) ELSE SetMin(breaks) - 1
         IN  <<SubSeq(seg, 1, n)>>
                 \o RotationRuns(SubSeq(seg, n + 1, Len(seg)))

\* A sequence without its repeats, the first of each kept.
RECURSIVE Unique(_)
Unique(s) ==
    IF s = <<>> THEN <<>>
    ELSE LET init == Unique(SubSeq(s, 1, Len(s) - 1))
             last == s[Len(s)]
         IN  IF \E k \in 1..Len(init) : init[k] = last THEN init
             ELSE Append(init, last)

\* Every definition cut where the rotation class changes.
split_rotated_segments(defs) ==
    Unique(Concat([k \in 1..Len(defs) |-> RotationRuns(defs[k])]))

\* The (0-based) rows that lie in an occurrence of seg in the stream.
find_segments(stream, seg) ==
    {r \in 0..(Len(stream) - 1) :
        \E i \in 1..Len(stream) :
            OccursAt(stream, seg, i) /\ i - 1 <= r /\ r < i - 1 + Len(seg)}

(***************************************************************************)
(* Segment and Ceq.  A row of the loop table holds the columns the         *)
(* compilation reads: column 0 (segment id), column 1 (parent block id),   *)
(* column 9 (duration), and the two analysis columns at the end, "hasadc"  *)
(* at -2 and "hasrot" at -1; the other columns pass through unread.        *)
(***************************************************************************)
SEGMENT_RINGDOWN_TIME == 116

\* Python's a[start:stop] for a sequence a (0-based, negative from the end).
PySlice(s, start, stop) ==
    LET Norm(i) == IF i < 0 THEN (IF i + Len(s) < 0 THEN 0 ELSE i + Len(s))
                   ELSE IF i > Len(s) THEN Len(s) ELSE i
    IN  SubSeq(s, Norm(start) + 1, Norm(stop))

\* Segment(segment_id, block_ids)
Segment(segment_id, block_ids) ==
    [segment_id |-> segment_id, n_blocks_in_segment |-> Len(block_ids),
     block_ids |-> block_ids]

\* parent_block_id = loop[:, 1].astype(int) * hasrot
MaskedIds(table) ==
    [r \in 1..Len(table) |-> table[r].parent_block_id * table[r].hasrot]

\* if not sections_edges: sections_edges = [0]; then the (start, end) pairs
\* np.stack((sections_edges, sections_edges[1:] + [-1]), axis=-1)
SectionPairs(edges) ==
    LET e == IF edges = <<>> THEN <<0>> ELSE edges
    IN  [n \in 1..Len(e) |-> <<e[n], (Tail(e) \o <<-1>>)[n]>>]

SectionDefinitions(section) ==
    split_rotated_segments(find_segment_definitions(section))

\* seg_definitions: the sections 0 to n-2 by their (start, end) pair, then
\* the last section from its start to the end of the table.
seg_definitions(table, edges) ==
    LET pairs == SectionPairs(edges)
        ids == MaskedIds(table)
        n_sections == Len(pairs)
    IN  Concat([n \in 1..(n_sections - 1) |->
                   SectionDefinitions(PySlice(ids, pairs[n][1], pairs[n][2]))])
        \o SectionDefinitions(PySlice(ids, pairs[n_sections][1], Len(ids)))

\* segment_id starts as zeros; for n = 0, 1, ...: segment_id[idx] = n, so a
\* row keeps the last n whose definition it lies in.
AssignedSegment(ids, defs, r) ==
    LET hits == {n \in 1..Len(defs) : r \in find_segments(ids, defs[n])}
    IN  IF hits = {} THEN 0 ELSE SetMax(hits) - 1

\* _build_segments(loop, sections_edges): the loop table with column 0
\* written, and the segments.
build_segments(table, edges) ==
    LET defs == seg_definitions(table, edges)
        ids == MaskedIds(table)
    IN  [loop |-> [r \in 1..Len(table) |->
                      [table[r] EXCEPT
                          !.segment_id = AssignedSegment(ids, defs, r - 1)]],
         segments |-> [n \in 1..Len(defs) |-> Segment(n - 1, defs[n])]]

\* [max(abs(block.rf.wav.magnitude)) for block in parent_blocks
\*                                   if block.rf is not None]
B1Peaks(blocks) ==
    LET with_rf == SelectSeq(blocks, LAMBDA b : b.rf # None)
    IN  [k \in 1..Len(with_rf) |->
            LET mag == TheValue(with_rf[k].rf).wav.magnitude
            IN  MaxOfSeq([j \in 1..Len(mag) |-> Abs(mag[j])])]

\* Variant: the peak of the first RF block only.
FirstPeak(blocks) == B1Peaks(blocks)[1]

\* _find_b1_max(parent_blocks): np.max of the list, which raises ValueError
\* on the empty list.
find_b1_max(blocks) == MaxOfSeq(B1Peaks(blocks))

find_b1_max_raises(blocks) == B1Peaks(blocks) = <<>>

\* Variant: only rising segment ids counted as boundaries.
CountRises(segment_id, block_duration) ==
    SumSeq(block_duration)
        + SEGMENT_RINGDOWN_TIME
          * Cardinality({r \in 1..(Len(segment_id) - 1) :
                            segment_id[r + 1] - segment_id[r] > 0})

\* _calc_duration(segment_id, block_duration)
calc_duration(segment_id, block_duration) ==
    LET diff == [r \in 1..(Len(segment_id) - 1) |->
                    segment_id[r + 1] - segment_id[r]]
        n_seg_boundaries == Cardinality({r \in DOMAIN diff : diff[r] # 0})
    IN  SumSeq(block_duration) + SEGMENT_RINGDOWN_TIME * n_seg_boundaries

\* Ceq.__init__(parent_blocks, loop, sections_edges), when it returns.
CeqObject(blocks, table, edges) ==
    LET built == build_segments(table, edges)
        trimmed == [r \in 1..Len(table) |->
                       [segment_id |-> built.loop[r].segment_id,
                        parent_block_id |-> built.loop[r].parent_block_id,
                        duration |-> built.loop[r].duration]]
    IN  [n_max |-> Len(table),
         n_parent_blocks |-> Len(blocks),
         n_segments |-> Len(built.segments),
         parent_blocks |-> blocks,
         segments |-> built.segments,
         loop |-> trimmed,
         max_b1 |-> find_b1_max(blocks),
         duration |-> calc_duration(
                          [r \in 1..Len(trimmed) |-> trimmed[r].segment_id],
                          [r \in 1..Len(trimmed) |-> trimmed[r].duration]),
         n_readouts |-> SumSeq([r \in 1..Len(table) |-> table[r].hasadc])]

(***************************************************************************)
(* Compilation: Ceq(parent_blocks, loop, sections_edges) on a loop table   *)
(* of up to MaxRows rows and up to MaxEdges section boundaries.  A table   *)
(* of no rows is the array of shape (0, n_columns).                        *)
(***************************************************************************)
MaxRows == 3

MaxEdges == 2

MaxBlocks == 2

ParentBlockIds == {1, 2}

\* The parent blocks that hold an ADC event: their rows have "hasadc" set.
ReadoutBlockIds == {1}

\* Row durations, in microseconds.
Durations == {3, 5}

LoopRows ==
    {[segment_id |-> 0, parent_block_id |-> b, duration |-> d,
      hasadc |-> IF b \in ReadoutBlockIds THEN 1 ELSE 0, hasrot |-> h] :
        b \in ParentBlockIds, d \in Durations, h \in {0, 1}}

SeqsUpTo(S, n) == UNION {[1..k -> S] : k \in 0..n}

\* The boundary lists: increasing row positions of a table of n rows.
EdgeLists(n) ==
    {e \in SeqsUpTo(0..n, MaxEdges) :
        \A i, j \in 1..Len(e) : i < j => e[i] < e[j]}

\* A parent block with the given RF descriptor (or none) and nothing else.
RFBlock(ID, rf) ==
    PulseqBlockInit(ID, [rf |-> rf, gx |-> None, gy |-> None, gz |-> None,
                         adc |-> None, trig |-> None, delay |-> None])

\* RF signals of 2 to MaxSamples real samples.
B1Signals == UNION {[1..n -> {-3, 2}] : n \in 2..MaxSamples}

B1Descs ==
    {[signal |-> sig, t |-> [k \in 1..Len(sig) |-> 2 * k],
      shape_dur |-> 2 * Len(sig), delay |-> 0] : sig \in B1Signals}

BlockList(rfs) == [k \in 1..Len(rfs) |-> RFBlock(k, rfs[k])]

InitIdle ==
    /\ data = None /\ wire = None /\ params = None /\ dict = None
    /\ args = None /\ endian = None /\ blk = None /\ out = None
    /\ removed = None
    /\ ceq = None

\* Many loop tables and boundary lists, two lists of parent blocks.
InitCeq ==
    /\ pc = "start"
    /\ loop \in SeqsUpTo(LoopRows, MaxRows)
    /\ sections_edges \in EdgeLists(Len(loop))
    /\ \E rf \in RFDescs :
          parent_blocks \in {BlockList(<<Some(rf), None>>), BlockList(<<None>>)}
    /\ InitIdle

\* Many lists of parent blocks, a few loop tables of two rows.
InitB1 ==
    /\ pc = "start"
    /\ loop \in [1..2 -> {row \in LoopRows : row.duration = 3
                                               /\ row.hasrot = 1}]
    /\ sections_edges = <<>>
    /\ parent_blocks \in {BlockList(rfs) :
                             rfs \in SeqsUpTo(Optional(B1Descs), MaxBlocks)}
    /\ InitIdle

CeqInit ==
    /\ pc = "start"
    /\ ~find_b1_max_raises(parent_blocks)
    /\ ceq' = Some(CeqObject(parent_blocks, loop, sections_edges))
    /\ pc' = "compiled"
    /\ UNCHANGED <<parent_blocks, loop, sections_edges, paramsVars,
                   blockVars>>

CeqInitFails ==
    /\ pc = "start"
    /\ find_b1_max_raises(parent_blocks)
    /\ pc' = "ValueError"
    /\ UNCHANGED <<ceqVars, paramsVars, blockVars>>

NextCeq == CeqInit \/ CeqInitFails

SpecCeq == InitCeq /\ [][NextCeq]_vars

SpecB1 == InitB1 /\ [][NextCeq]_vars

(***************************************************************************)
(* Claims about Ceq, under SpecCeq (C4 under SpecB1).                      *)
(***************************************************************************)
Compiled == pc = "compiled"

TheCeq == TheValue(ceq)

\* The adjacent row pairs of the compiled table whose segment ids differ.
SegmentBoundaries ==
    {r \in 1..(Len(TheCeq.loop) - 1) :
        TheCeq.loop[r].segment_id # TheCeq.loop[r + 1].segment_id}

RECURSIVE SumOverRows(_, _)
SumOverRows(table, n) ==
    IF n = 0 THEN 0 ELSE table[n].duration + SumOverRows(table, n - 1)

\* C1: after construction the total duration is D + k * 116 us, D the sum
\* of the rows' durations (column 9) and k the number of adjacent row pairs
\* with different compiled segment ids; with 0 or 1 rows k is 0.
C1_RingDownAccounting ==
    Compiled =>
        /\ TheCeq.duration
              = SumOverRows(loop, Len(loop))
                + Cardinality(SegmentBoundaries) * 116
        /\ Len(loop) <= 1 => TheCeq.duration = SumOverRows(loop, Len(loop))

C1_Witness ==
    /\ Compiled
    /\ Len(loop) = 3
    /\ Cardinality(SegmentBoundaries) = 2
    /\ TheCeq.duration = 3 + 5 + 3 + 2 * 116

\* C2: after construction from a non-empty loop table and any boundary
\* list, every row's segment id s satisfies 0 <= s < n_segments.
C2_SegmentIdValid ==
    (Compiled /\ Len(loop) > 0) =>
        \A r \in 1..Len(TheCeq.loop) :
            /\ 0 <= TheCeq.loop[r].segment_id
            /\ TheCeq.loop[r].segment_id < TheCeq.n_segments

\* The masked parent-block id of each row of the table handed in.
MaskedStream ==
    [r \in 1..Len(loop) |-> loop[r].parent_block_id * loop[r].hasrot]

\* Row r (1-based) lies in an occurrence of the id list ids in the masked
\* stream.
RowInOccurrence(r, ids) ==
    \E i \in 1..r :
        /\ r <= i + Len(ids) - 1
        /\ i + Len(ids) - 1 <= Len(loop)
        /\ \A k \in 1..Len(ids) : MaskedStream[i + k - 1] = ids[k]

\* C3: every row whose segment id names a segment of the list lies inside
\* an occurrence of that segment's block-id list in the masked stream,
\* whatever the boundary list.
C3_RowInItsSegment ==
    Compiled =>
        \A r \in 1..Len(TheCeq.loop) :
            LET s == TheCeq.loop[r].segment_id
            IN  s < TheCeq.n_segments =>
                    RowInOccurrence(r, TheCeq.segments[s + 1].block_ids)

\* The largest |sample| of the RF magnitudes of the parent blocks with RF.
RFBlocks == {k \in 1..Len(parent_blocks) : parent_blocks[k].rf # None}

PeakOfBlock(k) ==
    LET mag == TheValue(parent_blocks[k].rf).wav.magnitude
    IN  CHOOSE m \in {Abs(mag[j]) : j \in 1..Len(mag)} :
            \A j \in 1..Len(mag) : Abs(mag[j]) <= m

\* C4: construction sets max_b1 to the largest, over the parent blocks
\* with an RF event, of the block's largest absolute RF magnitude sample;
\* with no such block it fails with an error and there is no Ceq object.
C4_PeakRF ==
    /\ Compiled =>
          /\ RFBlocks # {}
          /\ \E k \in RFBlocks : TheCeq.max_b1 = PeakOfBlock(k)
          /\ \A k \in RFBlocks : PeakOfBlock(k) <= TheCeq.max_b1
    /\ pc = "ValueError" => RFBlocks = {} /\ ceq = None
    /\ (pc # "start" /\ RFBlocks = {}) => pc = "ValueError"

C4_Witness ==
    /\ Compiled
    /\ Len(parent_blocks) = 2
    /\ RFBlocks = {1, 2}
    /\ PeakOfBlock(1) = 3
    /\ PeakOfBlock(2) = 2
    /\ TheCeq.max_b1 = 3

\* C10: segment k has identifier k, no two segments of the list have the
\* same block-id list, and every segment is the segment id of some row.
C10_MinimalSegmentTable ==
    (Compiled /\ Len(loop) > 0) =>
        /\ \A n \in 1..TheCeq.n_segments :
              TheCeq.segments[n].segment_id = n - 1
        /\ \A m, n \in 1..TheCeq.n_segments :
              m # n => TheCeq.segments[m].block_ids
                          # TheCeq.segments[n].block_ids
        /\ \A n \in 1..TheCeq.n_segments :
              \E r \in 1..Len(TheCeq.loop) :
                  TheCeq.loop[r].segment_id = n - 1

(***************************************************************************)
(* Claims about SequenceParams, under SpecParams.                          *)
(***************************************************************************)
Decoded == pc \in {"decoded", "queried"}

\* The value the C side gave field i is the sentinel: -1 in a short member,
\* -1.0 (sign bit set, exponent 127, mantissa 0) in a float member.
WireIsUnset(i) ==
    \/ FieldTypes[i] = "int" /\ wire[i].v = -1
    \/ FieldTypes[i] = "float" /\ wire[i].v = <<191, 128, 0, 0>>

PackedFieldBytes ==
    SumSeq([i \in 1..NFields |-> IF FieldTypes[i] = "float" THEN 4 ELSE 2])

\* C6 as stated: from_bytes accepts a buffer exactly when its length is the
\* sum of the sizes of the 33 fields, with no padding.
C6_PackedSizeAccepted ==
    /\ Decoded => Len(data) = PackedFieldBytes
    /\ pc = "struct.error" => Len(data) # PackedFieldBytes

\* C6 amended: from_bytes accepts a buffer exactly when its length is the
\* native-aligned size of the layout, the fields' bytes plus two 2-byte
\* alignment gaps (116 bytes); any other length ends in struct.error and
\* no record.
C6_NativeSizeAccepted ==
    /\ Decoded => Len(data) = PackedFieldBytes + 4 /\ params # None
    /\ pc = "struct.error" =>
          Len(data) # PackedFieldBytes + 4 /\ params = None /\ dict = None

C6_Witness ==
    /\ pc = "decoded"
    /\ Len(data) = 116
    /\ params # None

\* C9: a freq_verse (phase_verse) wire value of -1, the documented value of
\* a swapped direction, decodes to -1 and is present in asdict().
C9_PolarityKept ==
    \A name \in {"freq_verse", "phase_verse"} :
        LET i == CHOOSE j \in 1..NFields : FieldNames[j] = name
        IN  (Decoded /\ wire[i].v = -1) =>
               /\ TheValue(params)[name] = Some([c |-> "h", v |-> -1])
               /\ pc = "queried" =>
                     /\ name \in DOMAIN TheValue(dict)
                     /\ TheValue(dict)[name].v = -1

=============================================================================
